---- MODULE Spec2Model ----
(***************************************************************************)
(* Model of src/app.py: the song search routine get_songs (pagination,     *)
(* de-duplication, keyword exclusion, listener ceiling) and the Streamlit  *)
(* handlers around it (form submit, "create playlist", "regenerate").      *)
(*                                                                         *)
(* A string whose characters matter (a track title, an exclusion keyword)  *)
(* is the sequence of the code points of its characters, so that           *)
(* str.lower() and the `in` substring test are computed rather than        *)
(* assumed.                                                                *)
(***************************************************************************)
EXTENDS Integers, Sequences, FiniteSets, TLC

VARIABLES
    \* ---- the catalog service (spotipy collaborator) ----
    catalog,          \* pages served by sp.search: page i is served at offset (i-1)*batch_size
    followers,        \* artist id -> artist['followers']['total']
    \* ---- get_songs: parameters and locals ----
    input_text, song_limit, max_listeners,
    unique_songs,     \* dict, insertion ordered: sequence of [key, val]
    track_ids_seen, song_titles_seen,
    offset,
    items,            \* results['tracks']['items'] of the page being iterated
    idx,              \* position of the for loop in items
    pc,               \* "idle" | "start" | "loop" | "for" | "done" | "raised"
    result,           \* value returned by get_songs
    \* ---- observation of one get_songs run ----
    search_offsets,   \* offsets of the sp.search calls made, in call order
    oracle_calls,     \* number of get_artist_monthly_listeners calls made
    accept_log,       \* one entry per acceptance: where the candidate stood and what the lookup said
    clients_made,     \* number of get_spotify_client() calls made (lines 77 and 71)
    client_failed,    \* the get_spotify_client() call of line 77 raised
    search_error,     \* "none", or what a sp.search call raised: "SpotifyException" | "other"
    oracle_failed,    \* a get_artist_monthly_listeners call raised
    \* ---- Streamlit script state ----
    ui,               \* "direct" | "idle" | "submit" | "regenerate"
    session_state,    \* st.session_state: function from the keys present to their values
    journal_text,     \* script variable journal_text (text_area value, or line 228)
    playlist_name,    \* value of the playlist name text_input (last submitted form value)
    last_published,   \* the last create_spotify_playlist call and its outcome, or NoPublish
    gen_count,        \* number of generation requests started so far
    draft_gen,        \* generation request that wrote session_state['track_ids']
    written,          \* st.session_state assignments made so far by the running handler
    crashed           \* a script run ended with an uncaught exception

resolver_vars == <<catalog, followers, input_text, song_limit, max_listeners,
                   unique_songs, track_ids_seen, song_titles_seen, offset, items,
                   idx, pc, result, search_offsets, oracle_calls, accept_log,
                   clients_made, client_failed, search_error, oracle_failed>>
ui_vars == <<ui, session_state, journal_text, playlist_name, last_published, gen_count,
             draft_gen, written, crashed>>
vars == <<resolver_vars, ui_vars>>

(***************************************************************************)
(* Bounds of the model                                                     *)
(***************************************************************************)
MaxTracks == 3
MaxPages == 2
MaxN == 2
MaxGenerations == 3

(***************************************************************************)
(* Program constants                                                       *)
(***************************************************************************)
batch_size == 50

exclude_keywords ==
    << <<114, 101, 109, 105, 120>>,                         \* remix
       <<101, 100, 105, 116>>,                              \* edit
       <<118, 101, 114, 115, 105, 111, 110>>,               \* version
       <<108, 105, 118, 101>>,                              \* live
       <<114, 101, 119, 111, 114, 107>>,                    \* rework
       <<97, 99, 111, 117, 115, 116, 105, 99>>,             \* acoustic
       <<99, 111, 118, 101, 114>>,                          \* cover
       <<116, 114, 105, 98, 117, 116, 101>>,                \* tribute
       <<107, 97, 114, 97, 111, 107, 101>> >>               \* karaoke

(***************************************************************************)
(* str.lower() and the substring test `keyword in song_name`               *)
(***************************************************************************)
\* Unicode 14.0.0, the character data of the interpreter that runs src/app.py.
\* <<first, last, step, delta>>: str.lower() maps each of the code points
\* first, first + step, ..., last to the code point delta further
LowerRanges ==
    { <<65,90,1,32>>, <<192,214,1,32>>, <<216,222,1,32>>, <<256,302,2,1>>,
      <<306,310,2,1>>, <<313,327,2,1>>, <<330,374,2,1>>, <<376,376,1,-121>>,
      <<377,381,2,1>>, <<385,385,1,210>>, <<386,388,2,1>>, <<390,390,1,206>>,
      <<391,391,1,1>>, <<393,394,1,205>>, <<395,395,1,1>>, <<398,398,1,79>>,
      <<399,399,1,202>>, <<400,400,1,203>>, <<401,401,1,1>>,
      <<403,403,1,205>>, <<404,404,1,207>>, <<406,406,1,211>>,
      <<407,407,1,209>>, <<408,408,1,1>>, <<412,412,1,211>>,
      <<413,413,1,213>>, <<415,415,1,214>>, <<416,420,2,1>>,
      <<422,422,1,218>>, <<423,423,1,1>>, <<425,425,1,218>>, <<428,428,1,1>>,
      <<430,430,1,218>>, <<431,431,1,1>>, <<433,434,1,217>>, <<435,437,2,1>>,
      <<439,439,1,219>>, <<440,440,1,1>>, <<444,444,1,1>>, <<452,452,1,2>>,
      <<453,453,1,1>>, <<455,455,1,2>>, <<456,456,1,1>>, <<458,458,1,2>>,
      <<459,475,2,1>>, <<478,494,2,1>>, <<497,497,1,2>>, <<498,500,2,1>>,
      <<502,502,1,-97>>, <<503,503,1,-56>>, <<504,542,2,1>>,
      <<544,544,1,-130>>, <<546,562,2,1>>, <<570,570,1,10795>>,
      <<571,571,1,1>>, <<573,573,1,-163>>, <<574,574,1,10792>>,
      <<577,577,1,1>>, <<579,579,1,-195>>, <<580,580,1,69>>, <<581,581,1,71>>,
      <<582,590,2,1>>, <<880,882,2,1>>, <<886,886,1,1>>, <<895,895,1,116>>,
      <<902,902,1,38>>, <<904,906,1,37>>, <<908,908,1,64>>, <<910,911,1,63>>,
      <<913,929,1,32>>, <<931,939,1,32>>, <<975,975,1,8>>, <<984,1006,2,1>>,
      <<1012,1012,1,-60>>, <<1015,1015,1,1>>, <<1017,1017,1,-7>>,
      <<1018,1018,1,1>>, <<1021,1023,1,-130>>, <<1024,1039,1,80>>,
      <<1040,1071,1,32>>, <<1120,1152,2,1>>, <<1162,1214,2,1>>,
      <<1216,1216,1,15>>, <<1217,1229,2,1>>, <<1232,1326,2,1>>,
      <<1329,1366,1,48>>, <<4256,4293,1,7264>>, <<4295,4295,1,7264>>,
      <<4301,4301,1,7264>>, <<5024,5103,1,38864>>, <<5104,5109,1,8>>,
      <<7312,7354,1,-3008>>, <<7357,7359,1,-3008>>, <<7680,7828,2,1>>,
      <<7838,7838,1,-7615>>, <<7840,7934,2,1>>, <<7944,7951,1,-8>>,
      <<7960,7965,1,-8>>, <<7976,7983,1,-8>>, <<7992,7999,1,-8>>,
      <<8008,8013,1,-8>>, <<8025,8031,2,-8>>, <<8040,8047,1,-8>>,
      <<8072,8079,1,-8>>, <<8088,8095,1,-8>>, <<8104,8111,1,-8>>,
      <<8120,8121,1,-8>>, <<8122,8123,1,-74>>, <<8124,8124,1,-9>>,
      <<8136,8139,1,-86>>, <<8140,8140,1,-9>>, <<8152,8153,1,-8>>,
      <<8154,8155,1,-100>>, <<8168,8169,1,-8>>, <<8170,8171,1,-112>>,
      <<8172,8172,1,-7>>, <<8184,8185,1,-128>>, <<8186,8187,1,-126>>,
      <<8188,8188,1,-9>>, <<8486,8486,1,-7517>>, <<8490,8490,1,-8383>>,
      <<8491,8491,1,-8262>>, <<8498,8498,1,28>>, <<8544,8559,1,16>>,
      <<8579,8579,1,1>>, <<9398,9423,1,26>>, <<11264,11311,1,48>>,
      <<11360,11360,1,1>>, <<11362,11362,1,-10743>>, <<11363,11363,1,-3814>>,
      <<11364,11364,1,-10727>>, <<11367,11371,2,1>>, <<11373,11373,1,-10780>>,
      <<11374,11374,1,-10749>>, <<11375,11375,1,-10783>>,
      <<11376,11376,1,-10782>>, <<11378,11378,1,1>>, <<11381,11381,1,1>>,
      <<11390,11391,1,-10815>>, <<11392,11490,2,1>>, <<11499,11501,2,1>>,
      <<11506,11506,1,1>>, <<42560,42604,2,1>>, <<42624,42650,2,1>>,
      <<42786,42798,2,1>>, <<42802,42862,2,1>>, <<42873,42875,2,1>>,
      <<42877,42877,1,-35332>>, <<42878,42886,2,1>>, <<42891,42891,1,1>>,
      <<42893,42893,1,-42280>>, <<42896,42898,2,1>>, <<42902,42920,2,1>>,
      <<42922,42922,1,-42308>>, <<42923,42923,1,-42319>>,
      <<42924,42924,1,-42315>>, <<42925,42925,1,-42305>>,
      <<42926,42926,1,-42308>>, <<42928,42928,1,-42258>>,
      <<42929,42929,1,-42282>>, <<42930,42930,1,-42261>>,
      <<42931,42931,1,928>>, <<42932,42946,2,1>>, <<42948,42948,1,-48>>,
      <<42949,42949,1,-42307>>, <<42950,42950,1,-35384>>, <<42951,42953,2,1>>,
      <<42960,42960,1,1>>, <<42966,42968,2,1>>, <<42997,42997,1,1>>,
      <<65313,65338,1,32>>, <<66560,66599,1,40>>, <<66736,66771,1,40>>,
      <<66928,66964,2,39>>, <<66929,66937,2,39>>, <<66941,66953,2,39>>,
      <<66957,66961,2,39>>, <<66965,66965,1,39>>, <<68736,68786,1,64>>,
      <<71840,71871,1,32>>, <<93760,93791,1,32>>, <<125184,125217,1,34>> }

\* the code points that str.lower() maps to one other code point
LowerPoints ==
    UNION { { c \in r[1]..r[2] : (c - r[1]) % r[3] = 0 } : r \in LowerRanges }

\* str.lower() of a one-character string, as a sequence of code points; 304
\* (capital I with dot above) lowers to two characters, i and the combining dot
ToLower ==
    (304 :> <<105, 775>>) @@
    [c \in LowerPoints |->
        LET r == CHOOSE r \in LowerRanges :
                     /\ r[1] <= c
                     /\ c <= r[2]
                     /\ (c - r[1]) % r[3] = 0
        IN  <<c + r[4]>>]

\* every other character is its own lowercase
LowerChar(c) == IF c \in DOMAIN ToLower THEN ToLower[c] ELSE <<c>>

\* <<first, last>>: the code points with the Unicode property Cased (the
\* lowercase, uppercase and titlecase characters) that are not case-ignorable
CasedRanges ==
    { <<65,90>>, <<97,122>>, <<170,170>>, <<181,181>>, <<186,186>>,
      <<192,214>>, <<216,246>>, <<248,442>>, <<444,447>>, <<452,659>>,
      <<661,687>>, <<880,883>>, <<886,887>>, <<891,893>>, <<895,895>>,
      <<902,902>>, <<904,906>>, <<908,908>>, <<910,929>>, <<931,1013>>,
      <<1015,1153>>, <<1162,1327>>, <<1329,1366>>, <<1376,1416>>,
      <<4256,4293>>, <<4295,4295>>, <<4301,4301>>, <<4304,4346>>,
      <<4349,4351>>, <<5024,5109>>, <<5112,5117>>, <<7296,7304>>,
      <<7312,7354>>, <<7357,7359>>, <<7424,7467>>, <<7531,7543>>,
      <<7545,7578>>, <<7680,7957>>, <<7960,7965>>, <<7968,8005>>,
      <<8008,8013>>, <<8016,8023>>, <<8025,8025>>, <<8027,8027>>,
      <<8029,8029>>, <<8031,8061>>, <<8064,8116>>, <<8118,8124>>,
      <<8126,8126>>, <<8130,8132>>, <<8134,8140>>, <<8144,8147>>,
      <<8150,8155>>, <<8160,8172>>, <<8178,8180>>, <<8182,8188>>,
      <<8450,8450>>, <<8455,8455>>, <<8458,8467>>, <<8469,8469>>,
      <<8473,8477>>, <<8484,8484>>, <<8486,8486>>, <<8488,8488>>,
      <<8490,8493>>, <<8495,8500>>, <<8505,8505>>, <<8508,8511>>,
      <<8517,8521>>, <<8526,8526>>, <<8544,8575>>, <<8579,8580>>,
      <<9398,9449>>, <<11264,11387>>, <<11390,11492>>, <<11499,11502>>,
      <<11506,11507>>, <<11520,11557>>, <<11559,11559>>, <<11565,11565>>,
      <<42560,42605>>, <<42624,42651>>, <<42786,42863>>, <<42865,42887>>,
      <<42891,42894>>, <<42896,42954>>, <<42960,42961>>, <<42963,42963>>,
      <<42965,42969>>, <<42997,42998>>, <<43002,43002>>, <<43824,43866>>,
      <<43872,43880>>, <<43888,43967>>, <<64256,64262>>, <<64275,64279>>,
      <<65313,65338>>, <<65345,65370>>, <<66560,66639>>, <<66736,66771>>,
      <<66776,66811>>, <<66928,66938>>, <<66940,66954>>, <<66956,66962>>,
      <<66964,66965>>, <<66967,66977>>, <<66979,66993>>, <<66995,67001>>,
      <<67003,67004>>, <<68736,68786>>, <<68800,68850>>, <<71840,71903>>,
      <<93760,93823>>, <<119808,119892>>, <<119894,119964>>,
      <<119966,119967>>, <<119970,119970>>, <<119973,119974>>,
      <<119977,119980>>, <<119982,119993>>, <<119995,119995>>,
      <<119997,120003>>, <<120005,120069>>, <<120071,120074>>,
      <<120077,120084>>, <<120086,120092>>, <<120094,120121>>,
      <<120123,120126>>, <<120128,120132>>, <<120134,120134>>,
      <<120138,120144>>, <<120146,120485>>, <<120488,120512>>,
      <<120514,120538>>, <<120540,120570>>, <<120572,120596>>,
      <<120598,120628>>, <<120630,120654>>, <<120656,120686>>,
      <<120688,120712>>, <<120714,120744>>, <<120746,120770>>,
      <<120772,120779>>, <<122624,122633>>, <<122635,122654>>,
      <<125184,125251>>, <<127280,127305>>, <<127312,127337>>,
      <<127344,127369>> }

\* <<first, last>>: the code points with the Unicode property Case_Ignorable
CaseIgnorableRanges ==
    { <<39,39>>, <<46,46>>, <<58,58>>, <<94,94>>, <<96,96>>, <<168,168>>,
      <<173,173>>, <<175,175>>, <<180,180>>, <<183,184>>, <<688,879>>,
      <<884,885>>, <<890,890>>, <<900,901>>, <<903,903>>, <<1155,1161>>,
      <<1369,1369>>, <<1375,1375>>, <<1425,1469>>, <<1471,1471>>,
      <<1473,1474>>, <<1476,1477>>, <<1479,1479>>, <<1524,1524>>,
      <<1536,1541>>, <<1552,1562>>, <<1564,1564>>, <<1600,1600>>,
      <<1611,1631>>, <<1648,1648>>, <<1750,1757>>, <<1759,1768>>,
      <<1770,1773>>, <<1807,1807>>, <<1809,1809>>, <<1840,1866>>,
      <<1958,1968>>, <<2027,2037>>, <<2042,2042>>, <<2045,2045>>,
      <<2070,2093>>, <<2137,2139>>, <<2184,2184>>, <<2192,2193>>,
      <<2200,2207>>, <<2249,2306>>, <<2362,2362>>, <<2364,2364>>,
      <<2369,2376>>, <<2381,2381>>, <<2385,2391>>, <<2402,2403>>,
      <<2417,2417>>, <<2433,2433>>, <<2492,2492>>, <<2497,2500>>,
      <<2509,2509>>, <<2530,2531>>, <<2558,2558>>, <<2561,2562>>,
      <<2620,2620>>, <<2625,2626>>, <<2631,2632>>, <<2635,2637>>,
      <<2641,2641>>, <<2672,2673>>, <<2677,2677>>, <<2689,2690>>,
      <<2748,2748>>, <<2753,2757>>, <<2759,2760>>, <<2765,2765>>,
      <<2786,2787>>, <<2810,2815>>, <<2817,2817>>, <<2876,2876>>,
      <<2879,2879>>, <<2881,2884>>, <<2893,2893>>, <<2901,2902>>,
      <<2914,2915>>, <<2946,2946>>, <<3008,3008>>, <<3021,3021>>,
      <<3072,3072>>, <<3076,3076>>, <<3132,3132>>, <<3134,3136>>,
      <<3142,3144>>, <<3146,3149>>, <<3157,3158>>, <<3170,3171>>,
      <<3201,3201>>, <<3260,3260>>, <<3263,3263>>, <<3270,3270>>,
      <<3276,3277>>, <<3298,3299>>, <<3328,3329>>, <<3387,3388>>,
      <<3393,3396>>, <<3405,3405>>, <<3426,3427>>, <<3457,3457>>,
      <<3530,3530>>, <<3538,3540>>, <<3542,3542>>, <<3633,3633>>,
      <<3636,3642>>, <<3654,3662>>, <<3761,3761>>, <<3764,3772>>,
      <<3782,3782>>, <<3784,3789>>, <<3864,3865>>, <<3893,3893>>,
      <<3895,3895>>, <<3897,3897>>, <<3953,3966>>, <<3968,3972>>,
      <<3974,3975>>, <<3981,3991>>, <<3993,4028>>, <<4038,4038>>,
      <<4141,4144>>, <<4146,4151>>, <<4153,4154>>, <<4157,4158>>,
      <<4184,4185>>, <<4190,4192>>, <<4209,4212>>, <<4226,4226>>,
      <<4229,4230>>, <<4237,4237>>, <<4253,4253>>, <<4348,4348>>,
      <<4957,4959>>, <<5906,5908>>, <<5938,5939>>, <<5970,5971>>,
      <<6002,6003>>, <<6068,6069>>, <<6071,6077>>, <<6086,6086>>,
      <<6089,6099>>, <<6103,6103>>, <<6109,6109>>, <<6155,6159>>,
      <<6211,6211>>, <<6277,6278>>, <<6313,6313>>, <<6432,6434>>,
      <<6439,6440>>, <<6450,6450>>, <<6457,6459>>, <<6679,6680>>,
      <<6683,6683>>, <<6742,6742>>, <<6744,6750>>, <<6752,6752>>,
      <<6754,6754>>, <<6757,6764>>, <<6771,6780>>, <<6783,6783>>,
      <<6823,6823>>, <<6832,6862>>, <<6912,6915>>, <<6964,6964>>,
      <<6966,6970>>, <<6972,6972>>, <<6978,6978>>, <<7019,7027>>,
      <<7040,7041>>, <<7074,7077>>, <<7080,7081>>, <<7083,7085>>,
      <<7142,7142>>, <<7144,7145>>, <<7149,7149>>, <<7151,7153>>,
      <<7212,7219>>, <<7222,7223>>, <<7288,7293>>, <<7376,7378>>,
      <<7380,7392>>, <<7394,7400>>, <<7405,7405>>, <<7412,7412>>,
      <<7416,7417>>, <<7468,7530>>, <<7544,7544>>, <<7579,7679>>,
      <<8125,8125>>, <<8127,8129>>, <<8141,8143>>, <<8157,8159>>,
      <<8173,8175>>, <<8189,8190>>, <<8203,8207>>, <<8216,8217>>,
      <<8228,8228>>, <<8231,8231>>, <<8234,8238>>, <<8288,8292>>,
      <<8294,8303>>, <<8305,8305>>, <<8319,8319>>, <<8336,8348>>,
      <<8400,8432>>, <<11388,11389>>, <<11503,11505>>, <<11631,11631>>,
      <<11647,11647>>, <<11744,11775>>, <<11823,11823>>, <<12293,12293>>,
      <<12330,12333>>, <<12337,12341>>, <<12347,12347>>, <<12441,12446>>,
      <<12540,12542>>, <<40981,40981>>, <<42232,42237>>, <<42508,42508>>,
      <<42607,42610>>, <<42612,42621>>, <<42623,42623>>, <<42652,42655>>,
      <<42736,42737>>, <<42752,42785>>, <<42864,42864>>, <<42888,42890>>,
      <<42994,42996>>, <<43000,43001>>, <<43010,43010>>, <<43014,43014>>,
      <<43019,43019>>, <<43045,43046>>, <<43052,43052>>, <<43204,43205>>,
      <<43232,43249>>, <<43263,43263>>, <<43302,43309>>, <<43335,43345>>,
      <<43392,43394>>, <<43443,43443>>, <<43446,43449>>, <<43452,43453>>,
      <<43471,43471>>, <<43493,43494>>, <<43561,43566>>, <<43569,43570>>,
      <<43573,43574>>, <<43587,43587>>, <<43596,43596>>, <<43632,43632>>,
      <<43644,43644>>, <<43696,43696>>, <<43698,43700>>, <<43703,43704>>,
      <<43710,43711>>, <<43713,43713>>, <<43741,43741>>, <<43756,43757>>,
      <<43763,43764>>, <<43766,43766>>, <<43867,43871>>, <<43881,43883>>,
      <<44005,44005>>, <<44008,44008>>, <<44013,44013>>, <<64286,64286>>,
      <<64434,64450>>, <<65024,65039>>, <<65043,65043>>, <<65056,65071>>,
      <<65106,65106>>, <<65109,65109>>, <<65279,65279>>, <<65287,65287>>,
      <<65294,65294>>, <<65306,65306>>, <<65342,65342>>, <<65344,65344>>,
      <<65392,65392>>, <<65438,65439>>, <<65507,65507>>, <<65529,65531>>,
      <<66045,66045>>, <<66272,66272>>, <<66422,66426>>, <<67456,67461>>,
      <<67463,67504>>, <<67506,67514>>, <<68097,68099>>, <<68101,68102>>,
      <<68108,68111>>, <<68152,68154>>, <<68159,68159>>, <<68325,68326>>,
      <<68900,68903>>, <<69291,69292>>, <<69446,69456>>, <<69506,69509>>,
      <<69633,69633>>, <<69688,69702>>, <<69744,69744>>, <<69747,69748>>,
      <<69759,69761>>, <<69811,69814>>, <<69817,69818>>, <<69821,69821>>,
      <<69826,69826>>, <<69837,69837>>, <<69888,69890>>, <<69927,69931>>,
      <<69933,69940>>, <<70003,70003>>, <<70016,70017>>, <<70070,70078>>,
      <<70089,70092>>, <<70095,70095>>, <<70191,70193>>, <<70196,70196>>,
      <<70198,70199>>, <<70206,70206>>, <<70367,70367>>, <<70371,70378>>,
      <<70400,70401>>, <<70459,70460>>, <<70464,70464>>, <<70502,70508>>,
      <<70512,70516>>, <<70712,70719>>, <<70722,70724>>, <<70726,70726>>,
      <<70750,70750>>, <<70835,70840>>, <<70842,70842>>, <<70847,70848>>,
      <<70850,70851>>, <<71090,71093>>, <<71100,71101>>, <<71103,71104>>,
      <<71132,71133>>, <<71219,71226>>, <<71229,71229>>, <<71231,71232>>,
      <<71339,71339>>, <<71341,71341>>, <<71344,71349>>, <<71351,71351>>,
      <<71453,71455>>, <<71458,71461>>, <<71463,71467>>, <<71727,71735>>,
      <<71737,71738>>, <<71995,71996>>, <<71998,71998>>, <<72003,72003>>,
      <<72148,72151>>, <<72154,72155>>, <<72160,72160>>, <<72193,72202>>,
      <<72243,72248>>, <<72251,72254>>, <<72263,72263>>, <<72273,72278>>,
      <<72281,72283>>, <<72330,72342>>, <<72344,72345>>, <<72752,72758>>,
      <<72760,72765>>, <<72767,72767>>, <<72850,72871>>, <<72874,72880>>,
      <<72882,72883>>, <<72885,72886>>, <<73009,73014>>, <<73018,73018>>,
      <<73020,73021>>, <<73023,73029>>, <<73031,73031>>, <<73104,73105>>,
      <<73109,73109>>, <<73111,73111>>, <<73459,73460>>, <<78896,78904>>,
      <<92912,92916>>, <<92976,92982>>, <<92992,92995>>, <<94031,94031>>,
      <<94095,94111>>, <<94176,94177>>, <<94179,94180>>, <<110576,110579>>,
      <<110581,110587>>, <<110589,110590>>, <<113821,113822>>,
      <<113824,113827>>, <<118528,118573>>, <<118576,118598>>,
      <<119143,119145>>, <<119155,119170>>, <<119173,119179>>,
      <<119210,119213>>, <<119362,119364>>, <<121344,121398>>,
      <<121403,121452>>, <<121461,121461>>, <<121476,121476>>,
      <<121499,121503>>, <<121505,121519>>, <<122880,122886>>,
      <<122888,122904>>, <<122907,122913>>, <<122915,122916>>,
      <<122918,122922>>, <<123184,123197>>, <<123566,123566>>,
      <<123628,123631>>, <<125136,125142>>, <<125252,125259>>,
      <<127995,127999>>, <<917505,917505>>, <<917536,917631>>,
      <<917760,917999>> }

CasedChars == UNION { r[1]..r[2] : r \in CasedRanges }
CaseIgnorableChars == UNION { r[1]..r[2] : r \in CaseIgnorableRanges }

\* the two tests of the scan around a capital sigma; the scan reads Cased only
\* of a character that is not case-ignorable
Cased(c) == c \in CasedChars
CaseIgnorable(c) == c \in CaseIgnorableChars

RECURSIVE SkipBack(_, _)
SkipBack(s, j) == IF j >= 1 /\ CaseIgnorable(s[j]) THEN SkipBack(s, j - 1) ELSE j
RECURSIVE SkipForward(_, _)
SkipForward(s, j) ==
    IF j <= Len(s) /\ CaseIgnorable(s[j]) THEN SkipForward(s, j + 1) ELSE j

\* a capital sigma (931) after a cased character and not before one lowers to
\* the final sigma (962); case-ignorable characters in between are skipped
FinalSigma(s, i) ==
    LET b == SkipBack(s, i - 1)
        f == SkipForward(s, i + 1)
    IN  /\ b >= 1
        /\ Cased(s[b])
        /\ (f > Len(s) \/ ~Cased(s[f]))

LowerAt(s, i) ==
    IF s[i] = 931 /\ FinalSigma(s, i) THEN <<962>> ELSE LowerChar(s[i])

RECURSIVE LowerFrom(_, _)
LowerFrom(s, i) == IF i > Len(s) THEN <<>> ELSE LowerAt(s, i) \o LowerFrom(s, i + 1)

Lower(s) == LowerFrom(s, 1)

Contains(kw, s) ==
    \E i \in 1..(Len(s) - Len(kw) + 1) : SubSeq(s, i, i + Len(kw) - 1) = kw

AnyKeyword(song_name) ==
    \E k \in 1..Len(exclude_keywords) : Contains(exclude_keywords[k], song_name)

(***************************************************************************)
(* Inputs: the track records the catalog can serve                         *)
(***************************************************************************)
Track(id, name, artist_id, artist_name, url) ==
    [id |-> id, name |-> name, artist_id |-> artist_id,
     artist_name |-> artist_name, url |-> url]

\* T1 ("Ete" with acute accents on both e) and T2 (the same in capitals) carry
\* one title in two cases under two ids; T3 repeats the id of T1 under a title
\* (capital I with dot above, capital sigma) whose lowercase is longer than
\* itself and ends in a final sigma; T4 ("PREWORK" written with the Kelvin
\* sign 8490) carries the keyword "rework" once lowered
T1 == Track("t1", <<201, 116, 233>>, "a1", "Ann", "u1")
T2 == Track("t2", <<201, 84, 201>>, "a2", "Bob", "u2")
T3 == Track("t1", <<304, 931>>, "a2", "Bob", "u1")
T4 == Track("t3", <<80, 82, 69, 87, 79, 82, 8490>>, "a1", "Ann", "u3")

Tracks == {T1, T2, T3, T4}

Artists == {"a1", "a2"}
Listeners == {0, 1}
Ceilings == {0, 1}
\* line 83: the longest query sent to the catalog
query_limit == 200

Fifty == "lofi beats to relax and study to on a rainy night "
LongPhrase == Fifty \o Fifty \o Fifty \o Fifty \o "and some more words"
Phrases == {"", "error", "chill lofi", LongPhrase}

SeqsUpTo(S, n) == UNION { [1..k -> S] : k \in 0..n }

RECURSIVE Sum(_)
Sum(s) == IF s = <<>> THEN 0 ELSE Head(s) + Sum(Tail(s))

\* the flat sequence of tracks cut into pages of the given lengths
RECURSIVE Split(_, _)
Split(flat, lens) ==
    IF lens = <<>> THEN <<>>
    ELSE <<SubSeq(flat, 1, Head(lens))>>
         \o Split(SubSeq(flat, Head(lens) + 1, Len(flat)), Tail(lens))

\* the catalogs tried with a phrase longer than query_limit
OnePageStreams == {<<>>} \cup { << <<t>> >> : t \in Tracks }

Streams ==
    { Split(flat, lens) :
        <<flat, lens>> \in
          { fl \in SeqsUpTo(Tracks, MaxTracks) \X SeqsUpTo(0..MaxTracks, MaxPages) :
              Sum(fl[2]) = Len(fl[1]) } }

(***************************************************************************)
(* The catalog's search endpoint: the page at an offset                    *)
(***************************************************************************)
Search(cat, off) ==
    LET i == (off \div batch_size) + 1
    IN  IF i <= Len(cat) THEN cat[i] ELSE <<>>

(***************************************************************************)
(* get_songs, piece by piece                                               *)
(***************************************************************************)
\* line 79: if not input_text or input_text == "error"
NoPhrase(text) == text = "" \/ text = "error"

\* line 93: while len(unique_songs) < song_limit
WhileCondOneShort(songs, limit) == Len(songs) + 1 < limit
WhileCond(songs, limit) == Len(songs) < limit

\* lines 96-98: except SpotifyException: return []
OnSearchError(songs) == <<>>

\* lines 111-115: the candidate is neither seen nor an alternate version
KeepNoIdCheck(track, titles_seen, ids_seen) ==
    /\ Lower(track.name) \notin titles_seen
    /\ ~AnyKeyword(Lower(track.name))
KeepNoKeywordCheck(track, titles_seen, ids_seen) ==
    /\ Lower(track.name) \notin titles_seen
    /\ track.id \notin ids_seen
Keep(track, titles_seen, ids_seen) ==
    LET song_name == Lower(track.name)
    IN  /\ song_name \notin titles_seen
        /\ track.id \notin ids_seen
        /\ ~AnyKeyword(song_name)

\* line 117: get_artist_monthly_listeners(artist_id) <= max_listeners
WithinLimitIgnored(listeners, ceiling) == TRUE
WithinLimit(listeners, ceiling) == listeners <= ceiling

\* lines 118-123: unique_songs[unique_key] = (...): a dict keeps insertion order,
\* and assigning an existing key replaces its value in place
DictSetFront(songs, key, val) ==
    <<[key |-> key, val |-> val]>> \o SelectSeq(songs, LAMBDA e : e.key # key)
DictSet(songs, key, val) ==
    IF \E i \in 1..Len(songs) : songs[i].key = key
    THEN [i \in 1..Len(songs) |->
            IF songs[i].key = key THEN [key |-> key, val |-> val] ELSE songs[i]]
    ELSE Append(songs, [key |-> key, val |-> val])

SongTuple(track) == <<track.id, track.name, track.artist_name, track.url>>

\* line 127: if len(unique_songs) >= song_limit: break
LimitReachedNever(songs, limit) == FALSE
LimitReached(songs, limit) == Len(songs) >= limit

\* line 130: offset += batch_size
NextOffsetStuck(off) == off
NextOffset(off) == off + batch_size

\* line 132: list(unique_songs.values())[:song_limit]
Returned(songs, limit) ==
    LET n == IF Len(songs) < limit THEN Len(songs) ELSE limit
    IN  [i \in 1..n |-> songs[i].val]

\* line 83: input_text[:200]
Truncate(text) ==
    IF Len(text) > query_limit THEN SubSeq(text, 1, query_limit) ELSE text

observation_vars == <<search_offsets, oracle_calls, accept_log, clients_made,
                      client_failed, search_error, oracle_failed>>
catalog_vars == <<catalog, followers>>
input_vars == <<catalog_vars, input_text, song_limit, max_listeners>>

\* line 77 with lines 28-34: get_spotify_client() raises (the constructors of
\* spotipy.Spotify and SpotifyOAuth); the call stands before the phrase guard
\* and in no try block, so the exception leaves get_songs
StartRaises ==
    /\ pc = "start"
    /\ clients_made' = clients_made + 1
    /\ client_failed' = TRUE
    /\ pc' = "raised"
    /\ UNCHANGED <<input_vars, unique_songs, track_ids_seen, song_titles_seen, offset,
                   items, idx, result, search_offsets, oracle_calls, accept_log,
                   search_error, oracle_failed, ui_vars>>

\* lines 77-90: the client, the phrase guard, the truncation of the phrase and
\* the initialisation of the locals
Start ==
    /\ pc = "start"
    /\ clients_made' = clients_made + 1
    /\ IF NoPhrase(input_text)
       THEN /\ result' = <<>>
            /\ pc' = "done"
            /\ UNCHANGED input_text
       ELSE /\ input_text' = Truncate(input_text)
            /\ pc' = "loop"
            /\ UNCHANGED result
    /\ UNCHANGED <<catalog_vars, song_limit, max_listeners, unique_songs,
                   track_ids_seen, song_titles_seen, offset, items, idx,
                   search_offsets, oracle_calls, accept_log, client_failed,
                   search_error, oracle_failed, ui_vars>>

\* lines 93-101: the loop test holds and sp.search returns a page
SearchPage ==
    /\ pc = "loop"
    /\ WhileCond(unique_songs, song_limit)
    /\ search_offsets' = Append(search_offsets, offset)
    /\ LET page == Search(catalog, offset)
       IN  IF page = <<>>
           THEN \* line 101: break, then line 132
                /\ result' = Returned(unique_songs, song_limit)
                /\ pc' = "done"
                /\ UNCHANGED <<items, idx>>
           ELSE /\ items' = page
                /\ idx' = 1
                /\ pc' = "for"
                /\ UNCHANGED result
    /\ UNCHANGED <<input_vars, unique_songs, track_ids_seen, song_titles_seen, offset,
                   oracle_calls, accept_log, clients_made, client_failed, search_error,
                   oracle_failed, ui_vars>>

\* lines 94-98: the loop test holds and sp.search raises SpotifyException
SearchRaises ==
    /\ pc = "loop"
    /\ WhileCond(unique_songs, song_limit)
    /\ search_offsets' = Append(search_offsets, offset)
    /\ search_error' = "SpotifyException"
    /\ result' = OnSearchError(unique_songs)
    /\ pc' = "done"
    /\ UNCHANGED <<input_vars, unique_songs, track_ids_seen, song_titles_seen, offset,
                   items, idx, oracle_calls, accept_log, clients_made, client_failed,
                   oracle_failed, ui_vars>>

\* lines 94-96: the loop test holds and sp.search raises an exception that is not
\* a SpotifyException (a connection error of the HTTP library): the except
\* clause does not match and the exception leaves get_songs
SearchRaisesOther ==
    /\ pc = "loop"
    /\ WhileCond(unique_songs, song_limit)
    /\ search_offsets' = Append(search_offsets, offset)
    /\ search_error' = "other"
    /\ pc' = "raised"
    /\ UNCHANGED <<input_vars, unique_songs, track_ids_seen, song_titles_seen, offset,
                   items, idx, result, oracle_calls, accept_log, clients_made,
                   client_failed, oracle_failed, ui_vars>>

\* line 93 fails, then line 132
LoopExit ==
    /\ pc = "loop"
    /\ ~WhileCond(unique_songs, song_limit)
    /\ result' = Returned(unique_songs, song_limit)
    /\ pc' = "done"
    /\ UNCHANGED <<input_vars, unique_songs, track_ids_seen, song_titles_seen, offset,
                   items, idx, observation_vars, ui_vars>>

\* lines 104-115: one iteration of the for loop on a candidate that is skipped
\* without a lookup (the break of line 127 is inside the if, so it is not reached)
ForSkip ==
    /\ pc = "for"
    /\ idx <= Len(items)
    /\ ~Keep(items[idx], song_titles_seen, track_ids_seen)
    /\ idx' = idx + 1
    /\ UNCHANGED <<input_vars, unique_songs, track_ids_seen, song_titles_seen, offset,
                   items, pc, result, observation_vars, ui_vars>>

\* lines 104-128: one iteration of the for loop on a candidate that is looked up
ForLookup ==
    /\ pc = "for"
    /\ idx <= Len(items)
    /\ Keep(items[idx], song_titles_seen, track_ids_seen)
    /\ oracle_calls' = oracle_calls + 1
    /\ clients_made' = clients_made + 1
    /\ LET track == items[idx]
           unique_key == Lower(track.name)
           listeners == followers[track.artist_id]
           accepted == WithinLimit(listeners, max_listeners)
           songs == IF accepted
                    THEN DictSet(unique_songs, unique_key, SongTuple(track))
                    ELSE unique_songs
       IN  /\ unique_songs' = songs
           /\ track_ids_seen' =
                IF accepted THEN track_ids_seen \cup {track.id} ELSE track_ids_seen
           /\ song_titles_seen' =
                IF accepted THEN song_titles_seen \cup {unique_key} ELSE song_titles_seen
           /\ accept_log' =
                IF accepted
                THEN Append(accept_log, [page |-> Len(search_offsets), pos |-> idx,
                                         track |-> track, listeners |-> listeners])
                ELSE accept_log
           /\ IF LimitReached(songs, song_limit)
              THEN \* line 128: break, then line 130
                   /\ offset' = NextOffset(offset)
                   /\ pc' = "loop"
                   /\ UNCHANGED idx
              ELSE /\ idx' = idx + 1
                   /\ UNCHANGED <<offset, pc>>
    /\ UNCHANGED <<input_vars, items, result, search_offsets, client_failed,
                   search_error, oracle_failed, ui_vars>>

\* lines 116-117 with lines 70-73: get_spotify_client or sp.artist raises inside
\* get_artist_monthly_listeners; get_songs has no handler around the call
ForLookupRaises ==
    /\ pc = "for"
    /\ idx <= Len(items)
    /\ Keep(items[idx], song_titles_seen, track_ids_seen)
    /\ oracle_calls' = oracle_calls + 1
    /\ clients_made' = clients_made + 1
    /\ oracle_failed' = TRUE
    /\ pc' = "raised"
    /\ UNCHANGED <<input_vars, unique_songs, track_ids_seen, song_titles_seen, offset,
                   items, idx, result, search_offsets, accept_log, client_failed,
                   search_error, ui_vars>>

\* the for loop is exhausted, then line 130
ForEnd ==
    /\ pc = "for"
    /\ idx > Len(items)
    /\ offset' = NextOffset(offset)
    /\ pc' = "loop"
    /\ UNCHANGED <<input_vars, unique_songs, track_ids_seen, song_titles_seen,
                   items, idx, result, observation_vars, ui_vars>>

get_songs ==
    \/ StartRaises
    \/ Start
    \/ SearchPage
    \/ SearchRaises
    \/ SearchRaisesOther
    \/ LoopExit
    \/ ForSkip
    \/ ForLookup
    \/ ForLookupRaises
    \/ ForEnd

NoPublish == [name |-> "", items |-> <<>>, outcome |-> "none",
              draft_gen |-> 0, latest_gen |-> 0]

\* a fresh get_songs frame (lines 85-90) and a fresh observation of it
FreshFrame ==
    /\ unique_songs = <<>>
    /\ track_ids_seen = {}
    /\ song_titles_seen = {}
    /\ offset = 0
    /\ items = <<>>
    /\ idx = 1
    /\ result = <<>>
    /\ search_offsets = <<>>
    /\ oracle_calls = 0
    /\ accept_log = <<>>
    /\ clients_made = 0
    /\ client_failed = FALSE
    /\ search_error = "none"
    /\ oracle_failed = FALSE

NoSession ==
    /\ session_state = <<>>
    /\ journal_text = ""
    /\ playlist_name = ""
    /\ last_published = NoPublish
    /\ gen_count = 0
    /\ draft_gen = 0
    /\ written = 0
    /\ crashed = FALSE

(***************************************************************************)
(* Spec: one call get_songs(input_text, song_limit, max_listeners)         *)
(***************************************************************************)
Init ==
    /\ input_text \in Phrases
    /\ catalog \in (IF NoPhrase(input_text) THEN {<<>>}
                    ELSE IF Len(input_text) > query_limit THEN OnePageStreams
                    ELSE Streams)
    /\ followers \in [Artists -> Listeners]
    /\ song_limit \in 0..MaxN
    /\ max_listeners \in Ceilings
    /\ pc = "start"
    /\ FreshFrame
    /\ ui = "direct"
    /\ NoSession

Next == get_songs

Spec == Init /\ [][Next]_vars

FairSpec == Spec /\ WF_vars(Next)

(***************************************************************************)
(* The Streamlit script: one script run per user action                    *)
(***************************************************************************)
Descriptions == {"upbeat indie"}
PlaylistNames == {"", "Mix"}

\* what the catalog may serve during a script run
UICatalogs == { <<>>, << <<T1>> >>, << <<T2, T3>> >>, << <<T3>>, <<T1>> >> }
UIFollowers == { [a \in Artists |-> 0], [a \in Artists |-> IF a = "a1" THEN 0 ELSE 1] }

\* st.session_state.get(key, default)
Get(session, key, default) == IF key \in DOMAIN session THEN session[key] ELSE default

\* lines 203: 'track_ids' in st.session_state and st.session_state['track_ids']
HasDraft == "track_ids" \in DOMAIN session_state /\ session_state["track_ids"] # <<>>

\* lines 185-190 and 242-247: the ids of song_list, in order
TrackIds(song_list) == [i \in 1..Len(song_list) |-> song_list[i][1]]

\* a call get_songs(text, limit, ceiling) begins: a fresh frame
Call(text, limit, ceiling, cat, fol) ==
    /\ input_text' = text
    /\ song_limit' = limit
    /\ max_listeners' = ceiling
    /\ catalog' = cat
    /\ followers' = fol
    /\ pc' = "start"
    /\ unique_songs' = <<>>
    /\ track_ids_seen' = {}
    /\ song_titles_seen' = {}
    /\ offset' = 0
    /\ items' = <<>>
    /\ idx' = 1
    /\ result' = <<>>
    /\ search_offsets' = <<>>
    /\ oracle_calls' = 0
    /\ accept_log' = <<>>
    /\ clients_made' = 0
    /\ client_failed' = FALSE
    /\ search_error' = "none"
    /\ oracle_failed' = FALSE

\* no call of get_songs is in progress: no parameters, no locals, and a catalog
\* service whose content is chosen by the next call
NoCall ==
    /\ input_text = ""
    /\ catalog = <<>>
    /\ followers = [a \in Artists |-> 0]
    /\ song_limit = 1
    /\ max_listeners = 0
    /\ pc = "idle"
    /\ FreshFrame

\* the frame of a finished call is dropped
Drop ==
    /\ input_text' = ""
    /\ catalog' = <<>>
    /\ followers' = [a \in Artists |-> 0]
    /\ song_limit' = 1
    /\ max_listeners' = 0
    /\ pc' = "idle"
    /\ unique_songs' = <<>>
    /\ track_ids_seen' = {}
    /\ song_titles_seen' = {}
    /\ offset' = 0
    /\ items' = <<>>
    /\ idx' = 1
    /\ result' = <<>>
    /\ search_offsets' = <<>>
    /\ oracle_calls' = 0
    /\ accept_log' = <<>>
    /\ clients_made' = 0
    /\ client_failed' = FALSE
    /\ search_error' = "none"
    /\ oracle_failed' = FALSE

\* st.session_state[key] = value
SetItem(session, key, value) == (key :> value) @@ session

\* the keys assigned by the submit handler (lines 193-197) and by the
\* regenerate handler (lines 250-251), in the order of the assignments
SubmitKeys == <<"track_ids", "playlist_name", "journal_text", "num_songs",
                "max_listeners">>
RegenerateKeys == <<"track_ids", "playlist_name">>

\* the value assigned to a key: the ids collected from song_list, and the script
\* variables playlist_name, journal_text, num_songs and max_listeners
Saved(key) ==
    CASE key = "track_ids" -> TrackIds(result)
      [] key = "playlist_name" -> playlist_name
      [] key = "journal_text" -> journal_text
      [] key = "num_songs" -> song_limit
      [] key = "max_listeners" -> max_listeners

\* one assignment to st.session_state by a handler that assigns keys; after the
\* last one the script run ends
Save(keys) ==
    /\ session_state' = SetItem(session_state, keys[written + 1], Saved(keys[written + 1]))
    /\ draft_gen' = IF keys[written + 1] = "track_ids" THEN gen_count ELSE draft_gen
    /\ IF written + 1 = Len(keys)
       THEN /\ written' = 0
            /\ ui' = "idle"
            /\ Drop
       ELSE /\ written' = written + 1
            /\ UNCHANGED <<resolver_vars, ui>>

\* lines 170-173: the form is submitted without a usable OpenAI key
SubmitNoKey ==
    /\ ui = "idle"
    /\ \E text \in Descriptions, name \in PlaylistNames :
         /\ journal_text' = text
         /\ playlist_name' = name
    /\ UNCHANGED <<resolver_vars, ui, session_state, last_published, gen_count,
                   draft_gen, written, crashed>>

\* lines 170-180: the form is submitted; analyze_input returns the model's text,
\* or "error", and get_songs is called with it
Submit ==
    /\ ui = "idle"
    /\ gen_count < MaxGenerations
    /\ \E text \in Descriptions, name \in PlaylistNames, num_songs \in 1..MaxN,
          ceiling \in Ceilings, input_mood \in Phrases,
          cat \in UICatalogs, fol \in UIFollowers :
         /\ journal_text' = text
         /\ playlist_name' = name
         /\ Call(input_mood, num_songs, ceiling, cat, fol)
    /\ ui' = "submit"
    /\ gen_count' = gen_count + 1
    /\ UNCHANGED <<session_state, last_published, draft_gen, written, crashed>>

\* lines 181-193 and 199-200: get_songs returned to the submit handler, which
\* makes the first of its assignments to st.session_state, or has no song
SubmitReturn ==
    /\ ui = "submit"
    /\ pc = "done"
    /\ written = 0
    /\ IF result # <<>>
       THEN Save(SubmitKeys)
       ELSE \* line 200: "No suitable songs found."
            /\ ui' = "idle"
            /\ Drop
            /\ UNCHANGED <<session_state, draft_gen, written>>
    /\ UNCHANGED <<journal_text, playlist_name, last_published, gen_count, crashed>>

\* lines 194-197: the next assignment of the submit handler
SubmitSave ==
    /\ ui = "submit"
    /\ pc = "done"
    /\ written >= 1
    /\ Save(SubmitKeys)
    /\ UNCHANGED <<journal_text, playlist_name, last_published, gen_count, crashed>>

\* lines 203-220 with 148-151: the "Create Playlist on Spotify" button, when no
\* spotipy call raises
Publish ==
    /\ ui = "idle"
    /\ HasDraft
    /\ LET track_ids == session_state["track_ids"]
           name == Get(session_state, "playlist_name", "My Spotify Playlist")
       IN  IF name # "" /\ track_ids # <<>>
           THEN last_published' = [name |-> name, items |-> track_ids,
                                   outcome |-> "added",
                                   draft_gen |-> draft_gen, latest_gen |-> gen_count]
           ELSE \* line 220: st.error
                UNCHANGED last_published
    /\ UNCHANGED <<resolver_vars, ui, session_state, journal_text, playlist_name,
                   gen_count, draft_gen, written, crashed>>

\* lines 215 with 149-150: create_spotify_playlist is called with the draft and
\* sp.user_playlist_create raises (nothing is created) or sp.playlist_add_items
\* raises (the playlist exists without its items); nothing catches it
CreateRaises ==
    /\ ui = "idle"
    /\ HasDraft
    /\ LET track_ids == session_state["track_ids"]
           name == Get(session_state, "playlist_name", "My Spotify Playlist")
       IN  /\ name # ""
           /\ track_ids # <<>>
           /\ \E outcome \in {"not_created", "created_empty"} :
                last_published' = [name |-> name, items |-> track_ids,
                                   outcome |-> outcome,
                                   draft_gen |-> draft_gen, latest_gen |-> gen_count]
    /\ crashed' = TRUE
    /\ UNCHANGED <<resolver_vars, ui, session_state, journal_text, playlist_name,
                   gen_count, draft_gen, written>>

\* lines 207-209: get_spotify_client or sp.current_user raises, before
\* create_spotify_playlist is called; nothing catches it
PublishRaises ==
    /\ ui = "idle"
    /\ HasDraft
    /\ crashed' = TRUE
    /\ UNCHANGED <<resolver_vars, ui, session_state, journal_text, playlist_name,
                   last_published, gen_count, draft_gen, written>>

\* lines 223-237 and 254-255: the "Generate a new playlist" button; without the
\* key journal_text in the session it only shows an error
Regenerate ==
    /\ ui = "idle"
    /\ HasDraft
    /\ IF "journal_text" \in DOMAIN session_state
       THEN /\ gen_count < MaxGenerations
            /\ journal_text' = session_state["journal_text"]
            /\ \E input_mood \in Phrases, cat \in UICatalogs, fol \in UIFollowers :
                 Call(input_mood, Get(session_state, "num_songs", 10),
                      Get(session_state, "max_listeners", 10000), cat, fol)
            /\ ui' = "regenerate"
            /\ gen_count' = gen_count + 1
       ELSE \* line 255: st.error
            UNCHANGED <<resolver_vars, ui, journal_text, gen_count>>
    /\ UNCHANGED <<session_state, playlist_name, last_published, draft_gen, written,
                   crashed>>

\* lines 238-250 and 252-253: get_songs returned to the regenerate handler, which
\* makes the first of its assignments to st.session_state, or has no song
RegenerateReturn ==
    /\ ui = "regenerate"
    /\ pc = "done"
    /\ written = 0
    /\ IF result # <<>>
       THEN Save(RegenerateKeys)
       ELSE /\ ui' = "idle"
            /\ Drop
            /\ UNCHANGED <<session_state, draft_gen, written>>
    /\ UNCHANGED <<journal_text, playlist_name, last_published, gen_count, crashed>>

\* line 251: the second assignment of the regenerate handler
RegenerateSave ==
    /\ ui = "regenerate"
    /\ pc = "done"
    /\ written >= 1
    /\ Save(RegenerateKeys)
    /\ UNCHANGED <<journal_text, playlist_name, last_published, gen_count, crashed>>

\* lines 181-197 and 238-251: Streamlit stops the script run (the user acted on
\* the page) at an element call or at an access to st.session_state after
\* get_songs returned: the assignments not yet made are not made, the session
\* keeps the ones made
ScriptStopped ==
    /\ ui \in {"submit", "regenerate"}
    /\ pc = "done"
    /\ ui' = "idle"
    /\ written' = 0
    /\ Drop
    /\ UNCHANGED <<session_state, journal_text, playlist_name, last_published,
                   gen_count, draft_gen, crashed>>

\* an exception of get_spotify_client, of a listener lookup, or of a search that
\* is no SpotifyException, leaves get_songs and the handler that called it
\* (lines 180 and 237 are in no try block): the script run ends there
HandlerRaises ==
    /\ ui \in {"submit", "regenerate"}
    /\ pc = "raised"
    /\ crashed' = TRUE
    /\ ui' = "idle"
    /\ Drop
    /\ UNCHANGED <<session_state, journal_text, playlist_name, last_published,
                   gen_count, draft_gen, written>>

InitUI ==
    /\ NoCall
    /\ ui = "idle"
    /\ NoSession

NextUI ==
    \/ SubmitNoKey
    \/ Submit
    \/ SubmitReturn
    \/ SubmitSave
    \/ Publish
    \/ CreateRaises
    \/ PublishRaises
    \/ Regenerate
    \/ RegenerateReturn
    \/ RegenerateSave
    \/ ScriptStopped
    \/ HandlerRaises
    \/ get_songs

SpecUI == InitUI /\ [][NextUI]_vars

(***************************************************************************)
(* Reference notions used to state the properties                          *)
(***************************************************************************)
\* the pages a reader meets before the first empty page, concatenated
RECURSIVE BeforeExhaustion(_)
BeforeExhaustion(cat) ==
    IF cat = <<>> \/ Head(cat) = <<>> THEN <<>>
    ELSE Head(cat) \o BeforeExhaustion(Tail(cat))

HasKeyword(name) ==
    LET low == Lower(name)
    IN  \E k \in 1..Len(exclude_keywords) :
            \E i \in 0..(Len(low) - Len(exclude_keywords[k])) :
                \A c \in 1..Len(exclude_keywords[k]) :
                    low[i + c] = exclude_keywords[k][c]

\* number of candidates of flat that are not excluded, are within the ceiling and
\* repeat neither the lowercased title nor the id of an earlier counted candidate
RECURSIVE Qualifying(_, _, _)
Qualifying(flat, titles, ids) ==
    IF flat = <<>> THEN 0
    ELSE LET t == Head(flat)
             q == /\ ~HasKeyword(t.name)
                  /\ followers[t.artist_id] <= max_listeners
                  /\ Lower(t.name) \notin titles
                  /\ t.id \notin ids
         IN  IF q
             THEN 1 + Qualifying(Tail(flat), titles \cup {Lower(t.name)}, ids \cup {t.id})
             ELSE Qualifying(Tail(flat), titles, ids)

QualifyingCount == Qualifying(BeforeExhaustion(catalog), {}, {})

Finished == pc = "done"
CleanRun == Finished /\ ~NoPhrase(input_text) /\ search_error = "none"
Values(songs) == [i \in 1..Len(songs) |-> songs[i].val]
PagesFetched == Len(search_offsets)

\* C1 (cardinality): get_songs never holds or returns more than song_limit songs,
\* and a run without a search error returns exactly song_limit songs if and only
\* if the stream holds, before its first empty page, at least song_limit
\* candidates that are non-excluded, within the ceiling and not duplicates (by
\* lowercased title or by id) of an earlier qualifying candidate.
C1_Cardinality ==
    /\ Len(unique_songs) <= song_limit
    /\ Finished => Len(result) <= song_limit
    /\ CleanRun => (Len(result) = song_limit <=> QualifyingCount >= song_limit)

C1_Witness ==
    /\ CleanRun
    /\ song_limit = 2
    /\ Len(result) = 2
    /\ PagesFetched = 2
    /\ oracle_calls > 2

\* C2 (dedup): at every point of a run and in the returned list, no two accepted
\* songs share a lowercased title and no two share a track id.
C2_Dedup ==
    /\ \A i, j \in 1..Len(unique_songs) :
         i < j => /\ Lower(unique_songs[i].val[2]) # Lower(unique_songs[j].val[2])
                  /\ unique_songs[i].val[1] # unique_songs[j].val[1]
    /\ \A i, j \in 1..Len(result) :
         i < j => /\ Lower(result[i][2]) # Lower(result[j][2])
                  /\ result[i][1] # result[j][1]

\* a run that accepted one song and then met, on a later page, the same title in
\* another case under another id, by an artist within the ceiling
C2_Witness ==
    /\ CleanRun
    /\ song_limit = 2
    /\ Len(result) = 1
    /\ PagesFetched >= 2
    /\ Len(catalog) >= 2
    /\ accept_log[1].page = 1
    /\ \E k \in 1..Len(catalog[2]) :
         /\ catalog[2][k].name # result[1][2]
         /\ Lower(catalog[2][k].name) = Lower(result[1][2])
         /\ catalog[2][k].id # result[1][1]
         /\ followers[catalog[2][k].artist_id] <= max_listeners

\* C3 (fail closed): when a sp.search call raises, on the first page or on a
\* later one, get_songs returns the empty list.
C3_FailClosed == search_error # "none" => (pc = "done" /\ result = <<>>)

\* what holds of the code: a SpotifyException of sp.search ends get_songs with
\* the empty list
SpotifyExceptionFailsClosed ==
    search_error = "SpotifyException" => (pc = "done" /\ result = <<>>)

\* C4 (lookup failure): when a listener lookup raises while a candidate is
\* evaluated, get_songs returns the empty list.
C4_LookupFailureReturnsEmpty == oracle_failed => (pc = "done" /\ result = <<>>)

\* C5 (early exit): once the number of accepted songs equals song_limit there is no
\* further listener lookup and no further search call (for song_limit = 0: none
\* at all).
C5_EarlyExit ==
    [][Len(unique_songs) = song_limit =>
         /\ oracle_calls' = oracle_calls
         /\ search_offsets' = search_offsets]_vars

\* the limit was reached in the middle of a page whose next candidate would have
\* been looked up
C5_Witness ==
    /\ CleanRun
    /\ song_limit >= 1
    /\ Len(result) = song_limit
    /\ idx < Len(items)
    /\ Keep(items[idx + 1], song_titles_seen, track_ids_seen)

\* C6 (ordering): the accepted songs, and the returned list, stand in the order
\* in which their candidates were evaluated: page by page, and within a page in
\* the order the catalog served them.
C6_Ordering ==
    /\ Len(unique_songs) = Len(accept_log)
    /\ \A i \in 1..Len(accept_log) :
         /\ unique_songs[i].val = SongTuple(accept_log[i].track)
         /\ catalog[accept_log[i].page][accept_log[i].pos] = accept_log[i].track
    /\ \A i, j \in 1..Len(accept_log) :
         i < j => \/ accept_log[i].page < accept_log[j].page
                  \/ /\ accept_log[i].page = accept_log[j].page
                     /\ accept_log[i].pos < accept_log[j].pos
    /\ CleanRun =>
         /\ Len(result) = Len(accept_log)
         /\ \A i \in 1..Len(result) : result[i] = SongTuple(accept_log[i].track)

C6_Witness ==
    /\ CleanRun
    /\ Len(result) = 2
    /\ accept_log[1].page = 1
    /\ accept_log[1].pos = 2
    /\ accept_log[2].page = 2
    /\ accept_log[2].pos = 1

\* C7 (ceiling): every returned song was accepted on a lookup that returned at
\* most max_listeners; with max_listeners = 0 only artists with 0 are accepted.
C7_Ceiling ==
    /\ \A i \in 1..Len(accept_log) : accept_log[i].listeners <= max_listeners
    /\ Finished =>
         \A i \in 1..Len(result) :
            \E k \in 1..Len(accept_log) :
               /\ SongTuple(accept_log[k].track) = result[i]
               /\ accept_log[k].listeners <= max_listeners
               /\ max_listeners = 0 => followers[accept_log[k].track.artist_id] = 0

\* ceiling 0: one candidate looked up and refused, another accepted
C7_Witness ==
    /\ CleanRun
    /\ max_listeners = 0
    /\ Len(result) >= 1
    /\ oracle_calls > Len(accept_log)

\* C8 (exclusion): no accepted or returned song has a title containing an
\* exclusion keyword as a case-insensitive substring.
C8_Exclusion ==
    /\ \A i \in 1..Len(unique_songs) : ~HasKeyword(unique_songs[i].val[2])
    /\ \A i \in 1..Len(result) : ~HasKeyword(result[i][2])

\* the first candidate served carries a keyword and its artist is within the ceiling
C8_Witness ==
    /\ CleanRun
    /\ Len(result) >= 1
    /\ HasKeyword(catalog[1][1].name)
    /\ followers[catalog[1][1].artist_id] <= max_listeners

\* C10 (termination on exhaustion): get_songs terminates; the searches are made at
\* offsets 0, batch_size, 2*batch_size, ... in this order; and a run without a
\* search error that ends short of song_limit ended on an empty page and returns
\* all the songs accepted so far.
C10_Inv ==
    /\ \A i \in 1..Len(search_offsets) : search_offsets[i] = (i - 1) * batch_size
    /\ (CleanRun /\ Len(accept_log) < song_limit) =>
         /\ Search(catalog, search_offsets[Len(search_offsets)]) = <<>>
         /\ Len(result) = Len(accept_log)
         /\ \A i \in 1..Len(result) : result[i] = SongTuple(accept_log[i].track)

\* a natural number that every step of get_songs decreases: the pages not yet
\* iterated (the empty page after the last one included), weighted by more than
\* a page's iterations, and the iterations left on the current page
LongestPage == IF catalog = <<>> THEN 0
               ELSE LET k == CHOOSE k \in 1..Len(catalog) :
                                \A m \in 1..Len(catalog) : Len(catalog[m]) <= Len(catalog[k])
                    IN  Len(catalog[k])
Weight == LongestPage + 3
PagesLeft == Len(catalog) + 1 - (offset \div batch_size)
Rank ==
    CASE pc = "start" -> Weight * (Len(catalog) + 1) + 2
      [] pc = "loop"  -> Weight * PagesLeft + 1
      [] pc = "for"   -> Weight * PagesLeft - idx
      [] OTHER        -> 0

C10_Exhaustion == []C10_Inv /\ [][Rank' < Rank /\ Rank' >= 0]_vars

\* the same termination as a liveness property of FairSpec
Termination == <>(pc = "done" \/ pc = "raised")

C10_Witness ==
    /\ CleanRun
    /\ song_limit = 2
    /\ Len(result) = 1
    /\ PagesFetched = 3
    /\ accept_log[1].page = 2

\* C9 (draft replacement): a publish action never sends track ids stored by a
\* generation request older than the most recent one.
C9_PublishSendsLatestGeneration ==
    last_published # NoPublish => last_published.draft_gen = last_published.latest_gen

====
